---------------------------- MODULE Spec2Model ----------------------------
(***************************************************************************)
(* Model of server/server.js: the vote store (the SQLite table votes), the *)
(* aggregator aggregateResults, the WebSocket client set with broadcast,   *)
(* and the HTTP handlers POST /api/vote and GET /api/reset.                *)
(*                                                                         *)
(* Node runs every handler to completion on one thread and better-sqlite3  *)
(* is synchronous, so each handler is one action.                          *)
(*                                                                         *)
(* A JavaScript string is a sequence of tokens (a Text): a token is a      *)
(* piece of the string that the model never looks inside, except that the  *)
(* JSON punctuation marks are tokens of their own.  "" is the empty        *)
(* sequence and string equality is sequence equality.                      *)
(***************************************************************************)
EXTENDS Integers, Sequences, FiniteSets, TLC

VARIABLES
    votes,      \* table votes: the rows [poll_id, voter_id, value] in rowid order
    clients,    \* the Set clients, in insertion order (the order for..of visits it)
    broken,     \* sockets in clients whose send() throws
    nextWs,     \* number of connections accepted so far
    last        \* the most recent step: what it received, did and answered

vars == <<votes, clients, broken, nextWs, last>>

-----------------------------------------------------------------------------
(* Bounds *)

MaxRows == 2        \* rows the table may hold
MaxSockets == 2     \* connections accepted over a run
MaxVotes == 3       \* rows of one poll an aggregate is computed from
MaxBallots == 3     \* rows the table may hold when every poll takes votes

-----------------------------------------------------------------------------
(* JavaScript values of the request body *)

T(w) == <<w>>

Undefined == [kind |-> "undefined", s |-> <<>>, items |-> <<>>]
JsString(t) == [kind |-> "string", s |-> t, items |-> <<>>]
JsArray(a) == [kind |-> "array", s |-> <<>>, items |-> a]

\* !x : undefined and "" are falsy, every array (the empty one too) is truthy
Falsy(x) ==
    \/ x.kind = "undefined"
    \/ x.kind = "string" /\ x.s = <<>>

RECURSIVE JoinQuoted(_)
JoinQuoted(a) ==
    IF a = <<>> THEN <<>>
    ELSE IF Len(a) = 1 THEN <<"\"">> \o a[1] \o <<"\"">>
    ELSE <<"\"">> \o a[1] \o <<"\"", ",">> \o JoinQuoted(Tail(a))

\* JSON.stringify of an array of strings (no character that needs escaping)
JSONstringify(a) == <<"[">> \o JoinQuoted(a) \o <<"]">>

\* typeof value === 'string' ? value : JSON.stringify(value)
storedValue(value) ==
    IF value.kind = "string" THEN value.s ELSE JSONstringify(value.items)

-----------------------------------------------------------------------------
(* JSON.parse, as far as aggregateResults uses it: the text of an array of *)
(* strings parses to its items; any other text either throws or yields a   *)
(* value without forEach, and both end in the catch block.                 *)

RECURSIVE closingQuote(_, _)
\* index of the first quote mark at or after i, 0 when there is none
closingQuote(t, i) ==
    IF i > Len(t) THEN 0
    ELSE IF t[i] = "\"" THEN i
    ELSE closingQuote(t, i + 1)

RECURSIVE parseItems(_, _, _)
\* t[i] starts an item of the array; acc holds the items read so far
parseItems(t, i, acc) ==
    IF i > Len(t) \/ t[i] # "\"" THEN [ok |-> FALSE, items |-> <<>>]
    ELSE LET j == closingQuote(t, i + 1) IN
         IF j = 0 \/ j + 1 > Len(t) THEN [ok |-> FALSE, items |-> <<>>]
         ELSE LET item == SubSeq(t, i + 1, j - 1) IN
              IF t[j + 1] = "]"
                 THEN [ok |-> j + 1 = Len(t), items |-> Append(acc, item)]
              ELSE IF t[j + 1] = ","
                 THEN parseItems(t, j + 2, Append(acc, item))
              ELSE [ok |-> FALSE, items |-> <<>>]

JSONparse(t) ==
    IF Len(t) < 2 \/ t[1] # "[" THEN [ok |-> FALSE, items |-> <<>>]
    ELSE IF t[2] = "]" THEN [ok |-> Len(t) = 2, items |-> <<>>]
    ELSE LET r == parseItems(t, 2, <<>>) IN
         IF r.ok THEN r ELSE [ok |-> FALSE, items |-> <<>>]

-----------------------------------------------------------------------------
(* Numbers inside strings.  Every decimal digit is a token of its own.     *)

Digit == {"0", "1", "2", "3", "4", "5", "6", "7", "8", "9"}

DigitVal(d) ==
    CASE d = "0" -> 0 [] d = "1" -> 1 [] d = "2" -> 2 [] d = "3" -> 3
      [] d = "4" -> 4 [] d = "5" -> 5 [] d = "6" -> 6 [] d = "7" -> 7
      [] d = "8" -> 8 [] d = "9" -> 9

RECURSIVE leadingDigits(_, _)
\* number of digit tokens at the head of t, from position i on
leadingDigits(t, i) ==
    IF i > Len(t) \/ t[i] \notin Digit THEN 0
    ELSE 1 + leadingDigits(t, i + 1)

RECURSIVE digitsValue(_, _)
\* value of the first n tokens of t read as a decimal numeral
digitsValue(t, n) ==
    IF n = 0 THEN 0 ELSE 10 * digitsValue(t, n - 1) + DigitVal(t[n])

\* parseInt(s): the longest numeral at the head of s, NaN when there is none
\* (no sign and no leading blanks among the modelled strings)
parseInt(t) ==
    LET n == leadingDigits(t, 1) IN
    IF n = 0 THEN [nan |-> TRUE, num |-> 0]
    ELSE [nan |-> FALSE, num |-> digitsValue(t, n)]

\* an object key that is a canonical array index: enumerated before the
\* other keys, in ascending numeric order
IsIndexKey(t) ==
    /\ Len(t) > 0
    /\ leadingDigits(t, 1) = Len(t)
    /\ (Len(t) > 1 => t[1] # "0")

-----------------------------------------------------------------------------
(* Object.prototype *)

\* names every object literal inherits from Object.prototype; POLLS[name] is
\* then a function or object: truthy, with neither type nor options
ObjectPrototypeKeys ==
    { T("constructor"), T("toString"), T("valueOf"), T("hasOwnProperty"),
      T("__proto__") }

-----------------------------------------------------------------------------
(* The object counts, as the sequence Object.entries enumerates:           *)
(* index keys first in ascending order, then the others as inserted.       *)

hasKey(counts, key) == \E i \in 1..Len(counts) : counts[i].label = key

getKey(counts, key) ==
    LET i == CHOOSE i \in 1..Len(counts) : counts[i].label = key IN counts[i].count

\* counts[key] = n
setKey(counts, key, n) ==
    IF hasKey(counts, key)
    THEN [i \in 1..Len(counts) |->
            IF counts[i].label = key THEN [label |-> key, count |-> n] ELSE counts[i]]
    ELSE IF IsIndexKey(key)
    THEN LET before == {i \in 1..Len(counts) :
                          /\ IsIndexKey(counts[i].label)
                          /\ digitsValue(counts[i].label, Len(counts[i].label))
                               < digitsValue(key, Len(key))}
             k == Cardinality(before)
         IN SubSeq(counts, 1, k) \o <<[label |-> key, count |-> n]>>
              \o SubSeq(counts, k + 1, Len(counts))
    ELSE Append(counts, [label |-> key, count |-> n])

\* the text of an inherited function with + 1 applied: the digit is appended
inheritedPlusOne(key) ==
    <<"function ", IF key = T("constructor") THEN "Object" ELSE key[1],
      "() { [native code] }", "1">>

\* counts[key] = (counts[key] || 0) + 1.  An entry holds a number (count) or,
\* after + 1 was applied to something that is no number, a string (text).
\* A key counts does not own is read through the prototype chain: for a name
\* of Object.prototype the value read is a function or an object, + 1 makes
\* a string of it, and the assignment stores the string under the key;
\* assigning a string to __proto__ is ignored and makes no key.
bump(counts, key) ==
    IF hasKey(counts, key)
    THEN [i \in 1..Len(counts) |->
            IF counts[i].label # key THEN counts[i]
            ELSE IF "count" \in DOMAIN counts[i]
            THEN [label |-> key, count |-> counts[i].count + 1]
            ELSE [label |-> key, text |-> Append(counts[i].text, "1")]]
    ELSE IF key = T("__proto__") THEN counts
    ELSE IF key \in ObjectPrototypeKeys
    THEN Append(counts, [label |-> key, text |-> inheritedPlusOne(key)])
    ELSE setKey(counts, key, 1)

\* the loop left out: counts starts without the declared options
zeroCountsNone(counts, options) == counts

RECURSIVE zeroCounts(_, _)
\* options.forEach(o => { counts[o] = 0; }) onto counts
zeroCounts(counts, options) ==
    IF options = <<>> THEN counts
    ELSE zeroCounts(setKey(counts, Head(options), 0), Tail(options))

RECURSIVE bumpAll(_, _)
\* keys.forEach(s => { counts[s] = (counts[s] || 0) + 1; })
bumpAll(counts, keys) ==
    IF keys = <<>> THEN counts
    ELSE bumpAll(bump(counts, Head(keys)), Tail(keys))

RECURSIVE reverse(_)
reverse(s) == IF s = <<>> THEN <<>> ELSE Append(reverse(Tail(s)), Head(s))

-----------------------------------------------------------------------------
(* Poll configuration *)

POLLS ==
    (T("1") :> [type |-> "mc",
                options |-> << <<"Yes", ",", " regularly">>,
                               <<"Yes", ",", " a few times">>,
                               <<"No", ",", " but I'm curious">>,
                               T("What's AI?") >>]) @@
    (T("2") :> [type |-> "open", options |-> <<>>]) @@
    \* the dash of the likert labels is written - here
    (T("3") :> [type |-> "likert",
                options |-> << <<"1", " - Not at all">>,
                               <<"2", " - A little nervous">>,
                               <<"3", " - Somewhat confident">>,
                               <<"4", " - Pretty confident">>,
                               <<"5", " - I'm already an AI pro">> >>]) @@
    (T("4") :> [type |-> "multi",
                options |-> << T("ChatGPT"), T("Microsoft Copilot"),
                               T("Google Gemini"), T("Claude"), T("ElevenLabs"),
                               T("Midjourney / DALL-E"), T("None of these") >>]) @@
    (T("5") :> [type |-> "open", options |-> <<>>]) @@
    (T("6") :> [type |-> "mc",
                options |-> << <<"Yes", ",", " several clients">>,
                               <<"Yes", ",", " a few">>,
                               T("Not that I know of"),
                               T("I'm not sure") >>])

\* Object.keys(POLLS): index keys in ascending order
PollKeys == << T("1"), T("2"), T("3"), T("4"), T("5"), T("6") >>

\* POLLS[pollId]
pollOf(pollId) ==
    IF pollId \in DOMAIN POLLS
    THEN [defined |-> TRUE, type |-> POLLS[pollId].type,
          options |-> POLLS[pollId].options]
    ELSE IF pollId \in ObjectPrototypeKeys
    THEN [defined |-> TRUE, type |-> "undefined", options |-> <<>>]
    ELSE [defined |-> FALSE, type |-> "undefined", options |-> <<>>]

-----------------------------------------------------------------------------
(* The table votes and its three prepared statements *)

rowIndex(table, poll_id, voter_id) ==
    {i \in 1..Len(table) : table[i].poll_id = poll_id /\ table[i].voter_id = voter_id}

\* a plain INSERT into a table without the UNIQUE constraint
upsertVoteInsertOnly(table, poll_id, voter_id, value) ==
    Append(table, [poll_id |-> poll_id, voter_id |-> voter_id, value |-> value])

\* INSERT ... ON CONFLICT(voter_id) DO UPDATE: the voter's rows of every
\* poll take the value
upsertVoteAnyPoll(table, poll_id, voter_id, value) ==
    IF rowIndex(table, poll_id, voter_id) # {}
    THEN [i \in 1..Len(table) |->
            IF table[i].voter_id = voter_id
            THEN [table[i] EXCEPT !.value = value] ELSE table[i]]
    ELSE Append(table, [poll_id |-> poll_id, voter_id |-> voter_id, value |-> value])

\* INSERT ... ON CONFLICT(poll_id, voter_id) DO UPDATE SET value = @value:
\* the conflicting row is updated where it stands, a new row gets the
\* highest rowid
upsertVote(table, poll_id, voter_id, value) ==
    IF rowIndex(table, poll_id, voter_id) # {}
    THEN [i \in 1..Len(table) |->
            IF i \in rowIndex(table, poll_id, voter_id)
            THEN [table[i] EXCEPT !.value = value] ELSE table[i]]
    ELSE Append(table, [poll_id |-> poll_id, voter_id |-> voter_id, value |-> value])

\* the voter ids of the model, in the order of the BINARY collation
VoterOrder == << T("v1"), T("v2") >>

RECURSIVE searchIndex(_, _, _)
\* the values of the rows of a poll, voter by voter in the order voters
searchIndex(table, poll_id, voters) ==
    IF voters = <<>> THEN <<>>
    ELSE LET rows == SelectSeq(table, LAMBDA r : r.poll_id = poll_id
                                                  /\ r.voter_id = Head(voters))
         IN [i \in 1..Len(rows) |-> rows[i].value]
              \o searchIndex(table, poll_id, Tail(voters))

\* SELECT value FROM votes WHERE poll_id = ? : SQLite answers it with a
\* search of the index that UNIQUE(poll_id, voter_id) creates, so the rows
\* come in the order of voter_id, not in rowid order
getVotes(table, poll_id) == searchIndex(table, poll_id, VoterOrder)

\* DELETE FROM votes WHERE poll_id = '1'
clearAllOnePoll(table) == SelectSeq(table, LAMBDA r : r.poll_id # T("1"))

\* DELETE FROM votes
clearAll(table) == <<>>

-----------------------------------------------------------------------------
(* aggregateResults *)

RECURSIVE multiCounts(_, _)
\* rows.forEach of the multi branch: a value that does not parse is skipped
multiCounts(counts, rows) ==
    IF rows = <<>> THEN counts
    ELSE LET selected == JSONparse(Head(rows)) IN
         multiCounts(IF selected.ok THEN bumpAll(counts, selected.items) ELSE counts,
                     Tail(rows))

isOption(options, value) == \E i \in 1..Len(options) : options[i] = value

RECURSIVE writeinCountsKeepAll(_, _, _)
\* the loop with writeIns.push(r.value) moved out of the else branch
writeinCountsKeepAll(acc, options, rows) ==
    IF rows = <<>> THEN acc
    ELSE writeinCountsKeepAll(
            IF isOption(options, Head(rows))
            THEN [counts |-> bump(acc.counts, Head(rows)),
                  writeIns |-> Append(acc.writeIns, Head(rows))]
            ELSE [counts |-> bump(acc.counts, T("Other")),
                  writeIns |-> Append(acc.writeIns, Head(rows))],
            options, Tail(rows))

RECURSIVE writeinCounts(_, _, _)
\* rows.forEach of the mc-writein branch; acc is [counts, writeIns]
writeinCounts(acc, options, rows) ==
    IF rows = <<>> THEN acc
    ELSE writeinCounts(
            IF isOption(options, Head(rows))
            THEN [acc EXCEPT !.counts = bump(acc.counts, Head(rows))]
            ELSE [counts |-> bump(acc.counts, T("Other")),
                  writeIns |-> Append(acc.writeIns, Head(rows))],
            options, Tail(rows))

RECURSIVE likertSumAllRows(_)
\* the loop with n++ outside the test: every row is counted
likertSumAllRows(rows) ==
    IF rows = <<>> THEN [sum |-> 0, n |-> 0]
    ELSE LET rest == likertSumAllRows(Tail(rows))
             num == parseInt(Head(rows))
         IN IF num.nan THEN [sum |-> rest.sum, n |-> rest.n + 1]
            ELSE [sum |-> rest.sum + num.num, n |-> rest.n + 1]

RECURSIVE likertSum(_)
\* [sum, n] over the values parseInt accepts
likertSum(rows) ==
    IF rows = <<>> THEN [sum |-> 0, n |-> 0]
    ELSE LET rest == likertSum(Tail(rows))
             num == parseInt(Head(rows))
         IN IF num.nan THEN rest
            ELSE [sum |-> rest.sum + num.num, n |-> rest.n + 1]

RECURSIVE numeral(_)
\* the decimal numeral of a natural number, one token per digit
numeral(k) ==
    LET d == CHOOSE d \in Digit : DigitVal(d) = k % 10 IN
    IF k < 10 THEN <<d>> ELSE Append(numeral(k \div 10), d)

\* (sum / n).toFixed(1) for sum >= 0: tenths rounded half up
toFixed1(sum, n) ==
    LET tenths == (20 * sum + n) \div (2 * n) IN
    numeral(tenths \div 10) \o <<".">> \o numeral(tenths % 10)

\* the aggregate of the stored values rows of a poll
aggregate(poll, rows) ==
    IF ~poll.defined THEN [total |-> 0, results |-> <<>>]
    ELSE IF poll.type = "open"
    THEN [total |-> Len(rows), results |-> reverse(rows)]
    ELSE IF poll.type = "multi"
    THEN [total |-> Len(rows),
          results |-> multiCounts(zeroCounts(<<>>, poll.options), rows)]
    ELSE IF poll.type = "mc-writein"
    THEN LET acc == writeinCounts(
                      [counts |-> setKey(zeroCounts(<<>>, poll.options), T("Other"), 0),
                       writeIns |-> <<>>],
                      poll.options, rows)
         IN [total |-> Len(rows), results |-> acc.counts,
             writeIns |-> reverse(acc.writeIns)]
    ELSE LET results == bumpAll(zeroCounts(<<>>, poll.options), rows) IN
         IF poll.type = "likert"
         THEN LET a == likertSum(rows) IN
              [total |-> Len(rows), results |-> results,
               average |-> IF a.n > 0 THEN toFixed1(a.sum, a.n) ELSE <<"0", ".", "0">>]
         ELSE [total |-> Len(rows), results |-> results]

aggregateResults(table, pollId) == aggregate(pollOf(pollId), getVotes(table, pollId))

-----------------------------------------------------------------------------
(* The Set clients and broadcast *)

\* clients.delete(ws)
remove(cs, ws) == SelectSeq(cs, LAMBDA c : c # ws)

members(cs) == {cs[i] : i \in 1..Len(cs)}

\* try { ws.send(msg); } catch { /* ignore */ } : "sent" when send returned,
\* "caught" when it threw and the catch block swallowed the error, "raised"
\* when the error left the statement
trySendUncaught(brk, ws) == IF ws \in brk THEN "raised" ELSE "sent"

trySend(brk, ws) == IF ws \in brk THEN "caught" ELSE "sent"

onSendErrorDrop(cs, ws) == remove(cs, ws)

\* what the catch block does to the Set clients: nothing
onSendError(cs, ws) == cs

RECURSIVE sendAll(_, _, _, _)
\* for (const ws of clients) over the members todo that are still to visit
sendAll(todo, brk, msg, acc) ==
    IF todo = <<>> THEN acc
    ELSE LET ws == Head(todo)
             r == trySend(brk, ws)
         IN IF r = "sent"
            THEN sendAll(Tail(todo), brk, msg,
                         [acc EXCEPT !.sent = Append(@, ws)])
            ELSE IF r = "caught"
            THEN sendAll(Tail(todo), brk, msg,
                         [acc EXCEPT !.failed = Append(@, ws),
                                     !.clients = onSendError(@, ws)])
            ELSE [acc EXCEPT !.failed = Append(@, ws), !.raised = TRUE]

\* broadcast(data) on the Set cs: the Set afterwards, the sockets whose send
\* returned, the sockets whose send threw, and whether an error reached the
\* caller.  msg, the JSON text of data, is represented by data itself.
broadcast(cs, brk, data) ==
    sendAll(cs, brk, data,
            [clients |-> cs, sent |-> <<>>, failed |-> <<>>, raised |-> FALSE])

\* the sends of the n-th event a handler run publishes
tagged(wss, n) == [i \in 1..Len(wss) |-> [ws |-> wss[i], event |-> n]]

-----------------------------------------------------------------------------
(* POST /api/vote *)

\* the handler with the aggregate read before the upsert
voteHandlerStale(table, cs, brk, req, fault) ==
    LET reject(msg) ==
            [votes |-> table, clients |-> cs, status |-> 400, error |-> msg,
             steps |-> <<"validate", "respond">>, changes |-> 0,
             emitted |-> <<>>, sent |-> <<>>, failed |-> <<>>]
        stored == upsertVote(table, req.poll.s, req.voterId.s, storedValue(req.value))
        results == aggregateResults(table, req.poll.s)
        data == [type |-> "vote", poll |-> req.poll.s, results |-> results]
        b == broadcast(cs, brk, data)
    IN
    IF Falsy(req.poll) \/ Falsy(req.value) \/ Falsy(req.voterId)
    THEN reject("Missing poll, value, or voterId")
    ELSE IF ~pollOf(req.poll.s).defined
    THEN reject("Invalid poll ID")
    ELSE IF fault = "upsert"
    THEN [votes |-> table, clients |-> cs, status |-> 500, error |-> "err.message",
          steps |-> <<"validate", "throw", "respond">>, changes |-> 0,
          emitted |-> <<>>, sent |-> <<>>, failed |-> <<>>]
    ELSE IF fault = "getVotes"
    THEN [votes |-> stored, clients |-> cs, status |-> 500, error |-> "err.message",
          steps |-> <<"validate", "upsert", "throw", "respond">>, changes |-> 1,
          emitted |-> <<>>, sent |-> <<>>, failed |-> <<>>]
    ELSE IF b.raised
    THEN [votes |-> stored, clients |-> b.clients, status |-> 500,
          error |-> "err.message",
          steps |-> <<"validate", "upsert", "aggregate", "throw", "respond">>,
          changes |-> 1,
          emitted |-> <<data>>, sent |-> tagged(b.sent, 1),
          failed |-> tagged(b.failed, 1)]
    ELSE [votes |-> stored, clients |-> b.clients, status |-> 200, error |-> "",
          steps |-> <<"validate", "upsert", "aggregate", "broadcast", "respond">>,
          changes |-> 1,
          emitted |-> <<data>>, sent |-> tagged(b.sent, 1),
          failed |-> tagged(b.failed, 1)]

\* the handler with a catch block that answers nothing: catch (err) { }
voteHandlerSilentCatch(table, cs, brk, req, fault) ==
    LET reject(msg) ==
            [votes |-> table, clients |-> cs, status |-> 400, error |-> msg,
             steps |-> <<"validate", "respond">>, changes |-> 0,
             emitted |-> <<>>, sent |-> <<>>, failed |-> <<>>]
        stored == upsertVote(table, req.poll.s, req.voterId.s, storedValue(req.value))
        results == aggregateResults(stored, req.poll.s)
        data == [type |-> "vote", poll |-> req.poll.s, results |-> results]
        b == broadcast(cs, brk, data)
    IN
    IF Falsy(req.poll) \/ Falsy(req.value) \/ Falsy(req.voterId)
    THEN reject("Missing poll, value, or voterId")
    ELSE IF ~pollOf(req.poll.s).defined
    THEN reject("Invalid poll ID")
    ELSE IF fault = "upsert"
    THEN [votes |-> table, clients |-> cs, status |-> 0, error |-> "",
          steps |-> <<"validate", "throw">>, changes |-> 0,
          emitted |-> <<>>, sent |-> <<>>, failed |-> <<>>]
    ELSE IF fault = "getVotes"
    THEN [votes |-> stored, clients |-> cs, status |-> 0, error |-> "",
          steps |-> <<"validate", "upsert", "throw">>, changes |-> 1,
          emitted |-> <<>>, sent |-> <<>>, failed |-> <<>>]
    ELSE IF b.raised
    THEN [votes |-> stored, clients |-> b.clients, status |-> 500,
          error |-> "err.message",
          steps |-> <<"validate", "upsert", "aggregate", "throw", "respond">>,
          changes |-> 1,
          emitted |-> <<data>>, sent |-> tagged(b.sent, 1),
          failed |-> tagged(b.failed, 1)]
    ELSE [votes |-> stored, clients |-> b.clients, status |-> 200, error |-> "",
          steps |-> <<"validate", "upsert", "aggregate", "broadcast", "respond">>,
          changes |-> 1,
          emitted |-> <<data>>, sent |-> tagged(b.sent, 1),
          failed |-> tagged(b.failed, 1)]

\* The handler run on table and cs with request body req.  fault names the
\* prepared statement that throws in this run: "none", "upsert" or "getVotes".
\* steps lists the statements in the order they ended ("throw": one threw),
\* changes is the number of rows the run wrote.
voteHandler(table, cs, brk, req, fault) ==
    LET reject(msg) ==
            [votes |-> table, clients |-> cs, status |-> 400, error |-> msg,
             steps |-> <<"validate", "respond">>, changes |-> 0,
             emitted |-> <<>>, sent |-> <<>>, failed |-> <<>>]
        stored == upsertVote(table, req.poll.s, req.voterId.s, storedValue(req.value))
        results == aggregateResults(stored, req.poll.s)
        data == [type |-> "vote", poll |-> req.poll.s, results |-> results]
        b == broadcast(cs, brk, data)
    IN
    IF Falsy(req.poll) \/ Falsy(req.value) \/ Falsy(req.voterId)
    THEN reject("Missing poll, value, or voterId")
    ELSE IF ~pollOf(req.poll.s).defined
    THEN reject("Invalid poll ID")
    ELSE IF fault = "upsert"
    THEN [votes |-> table, clients |-> cs, status |-> 500, error |-> "err.message",
          steps |-> <<"validate", "throw", "respond">>, changes |-> 0,
          emitted |-> <<>>, sent |-> <<>>, failed |-> <<>>]
    ELSE IF fault = "getVotes"
    THEN [votes |-> stored, clients |-> cs, status |-> 500, error |-> "err.message",
          steps |-> <<"validate", "upsert", "throw", "respond">>, changes |-> 1,
          emitted |-> <<>>, sent |-> <<>>, failed |-> <<>>]
    ELSE IF b.raised
    THEN [votes |-> stored, clients |-> b.clients, status |-> 500,
          error |-> "err.message",
          steps |-> <<"validate", "upsert", "aggregate", "throw", "respond">>,
          changes |-> 1,
          emitted |-> <<data>>, sent |-> tagged(b.sent, 1),
          failed |-> tagged(b.failed, 1)]
    ELSE [votes |-> stored, clients |-> b.clients, status |-> 200, error |-> "",
          steps |-> <<"validate", "upsert", "aggregate", "broadcast", "respond">>,
          changes |-> 1,
          emitted |-> <<data>>, sent |-> tagged(b.sent, 1),
          failed |-> tagged(b.failed, 1)]

-----------------------------------------------------------------------------
(* GET /api/reset *)

resetEventTypeReset == "reset"

\* the type of the events a reset publishes
resetEventType == "vote"

RECURSIVE resetBroadcastsLifo(_, _, _, _, _)
\* the loop with the sends of each event put in front of the earlier ones,
\* as if the sockets wrote their queued messages last in, first out
resetBroadcastsLifo(pids, table, brk, failAt, acc) ==
    IF pids = <<>> \/ acc.raised THEN acc
    ELSE IF failAt = 1 THEN [acc EXCEPT !.raised = TRUE]
    ELSE LET data == [type |-> resetEventType, poll |-> Head(pids),
                      results |-> aggregateResults(table, Head(pids))]
             b == broadcast(acc.clients, brk, data)
         IN resetBroadcastsLifo(Tail(pids), table, brk,
                            IF failAt = 0 THEN 0 ELSE failAt - 1,
                            [clients |-> b.clients,
                             emitted |-> Append(acc.emitted, data),
                             sent |-> tagged(b.sent, Len(acc.emitted) + 1) \o acc.sent,
                             failed |-> acc.failed
                                          \o tagged(b.failed, Len(acc.emitted) + 1),
                             raised |-> b.raised])

RECURSIVE resetBroadcasts(_, _, _, _, _)
\* Object.keys(POLLS).forEach(pid => broadcast({..., results: aggregateResults(pid)}))
\* over the keys pids still to visit; failAt counts the calls of getVotes
\* down to the one that throws (0: none does)
resetBroadcasts(pids, table, brk, failAt, acc) ==
    IF pids = <<>> \/ acc.raised THEN acc
    ELSE IF failAt = 1 THEN [acc EXCEPT !.raised = TRUE]
    ELSE LET data == [type |-> resetEventType, poll |-> Head(pids),
                      results |-> aggregateResults(table, Head(pids))]
             b == broadcast(acc.clients, brk, data)
         IN resetBroadcasts(Tail(pids), table, brk,
                            IF failAt = 0 THEN 0 ELSE failAt - 1,
                            [clients |-> b.clients,
                             emitted |-> Append(acc.emitted, data),
                             sent |-> acc.sent \o tagged(b.sent, Len(acc.emitted) + 1),
                             failed |-> acc.failed
                                          \o tagged(b.failed, Len(acc.emitted) + 1),
                             raised |-> b.raised])

\* The handler run on table and cs.  fault is "clearAll" when DELETE throws;
\* otherwise failAt is the call of getVotes that throws (0: none).  The route
\* has no try block: an error goes to the framework, which answers 500.
resetHandler(table, cs, brk, fault, failAt) ==
    IF fault = "clearAll"
    THEN [votes |-> table, clients |-> cs, status |-> 500, error |-> "err.message",
          steps |-> <<"throw", "respond">>, changes |-> 0,
          emitted |-> <<>>, sent |-> <<>>, failed |-> <<>>]
    ELSE LET r == resetBroadcasts(PollKeys, clearAll(table), brk, failAt,
                     [clients |-> cs, emitted |-> <<>>, sent |-> <<>>,
                      failed |-> <<>>, raised |-> FALSE])
         IN [votes |-> clearAll(table), clients |-> r.clients,
             status |-> IF r.raised THEN 500 ELSE 200,
             error |-> IF r.raised THEN "err.message" ELSE "",
             steps |-> IF r.raised THEN <<"clearAll", "throw", "respond">>
                       ELSE <<"clearAll", "broadcast", "respond">>,
             changes |-> Len(table) - Len(clearAll(table)),
             emitted |-> r.emitted, sent |-> r.sent, failed |-> r.failed]

-----------------------------------------------------------------------------
(* Inputs *)

Voters == members(VoterOrder)

\* what the vote page of the multi poll sends, as an array, and the empty
\* selection
Selections == {JsArray(<<>>), JsArray(<<T("ChatGPT"), T("Claude")>>)}

\* requests with every field present: for a poll of the catalog, and for a
\* poll id that is no key of POLLS but a name POLLS inherits
CompleteRequests ==
    [poll : {JsString(T("4"))}, value : Selections,
     voterId : {JsString(v) : v \in Voters}]
    \cup {[poll |-> JsString(T("constructor")),
           value |-> JsString(<<"Yes", ",", " regularly">>),
           voterId |-> JsString(T("v1"))]}

\* one field of a complete request missing, empty or unknown
DefectiveRequests ==
    LET r == [poll |-> JsString(T("4")),
              value |-> JsArray(<<T("ChatGPT"), T("Claude")>>),
              voterId |-> JsString(T("v1"))]
    IN {[r EXCEPT !.poll = x] : x \in {Undefined, JsString(<<>>), JsString(T("9"))}}
       \cup {[r EXCEPT !.voterId = x] : x \in {Undefined, JsString(<<>>)}}
       \cup {[r EXCEPT !.value = x] : x \in {Undefined, JsString(<<>>)}}

Requests == CompleteRequests \cup DefectiveRequests

NoRequest == [poll |-> Undefined, value |-> Undefined, voterId |-> Undefined]

VoteFaults == {"none", "upsert", "getVotes"}

\* the call of getVotes that throws during a reset (0: none)
ResetFailAt == {0, 1, 4}

\* the request passes both checks of the handler and reaches the statements
reachesStore(req) ==
    /\ ~(Falsy(req.poll) \/ Falsy(req.value) \/ Falsy(req.voterId))
    /\ pollOf(req.poll.s).defined

-----------------------------------------------------------------------------
(* The state machine *)

\* the record of a step that is not an HTTP request
event(op, ws) ==
    [op |-> op, ws |-> ws, req |-> NoRequest, status |-> 0, error |-> "",
     steps |-> <<>>, changes |-> 0, emitted |-> <<>>, sent |-> <<>>,
     failed |-> <<>>]

\* the record of an HTTP request, its response and what the handler did
http(op, req, out) ==
    [op |-> op, ws |-> 0, req |-> req, status |-> out.status, error |-> out.error,
     steps |-> out.steps, changes |-> out.changes, emitted |-> out.emitted,
     sent |-> out.sent, failed |-> out.failed]

Init ==
    /\ votes = <<>>
    /\ clients = <<>>
    /\ broken = {}
    /\ nextWs = 0
    /\ last = event("listen", 0)

\* POST /api/vote
Vote ==
    \E req \in Requests, fault \in VoteFaults :
        LET out == voteHandler(votes, clients, broken, req, fault) IN
        /\ fault # "none" => reachesStore(req)
        /\ Len(out.votes) <= MaxRows
        /\ votes' = out.votes
        /\ clients' = out.clients
        /\ last' = http("vote", req, out)
        /\ UNCHANGED <<broken, nextWs>>

\* GET /api/reset
Reset ==
    \E fault \in {"none", "clearAll"}, failAt \in ResetFailAt :
        LET out == resetHandler(votes, clients, broken, fault, failAt) IN
        /\ fault = "clearAll" => failAt = 0
        /\ votes' = out.votes
        /\ clients' = out.clients
        /\ last' = http("reset", NoRequest, out)
        /\ UNCHANGED <<broken, nextWs>>

\* wss.on('connection', ws => { clients.add(ws); ... })
Connection ==
    /\ nextWs < MaxSockets
    /\ nextWs' = nextWs + 1
    /\ clients' = Append(clients, nextWs + 1)
    /\ last' = event("connection", nextWs + 1)
    /\ UNCHANGED <<votes, broken>>

\* ws.on('close', () => clients.delete(ws))
Close ==
    \E ws \in members(clients) :
        /\ clients' = remove(clients, ws)
        /\ broken' = broken \ {ws}
        /\ last' = event("close", ws)
        /\ UNCHANGED <<votes, nextWs>>

\* ws.on('error', () => clients.delete(ws))
Error ==
    \E ws \in members(clients) \cap broken :
        /\ clients' = remove(clients, ws)
        /\ broken' = broken \ {ws}
        /\ last' = event("error", ws)
        /\ UNCHANGED <<votes, nextWs>>

\* a connection stops accepting data before its close event is dispatched:
\* from now on ws.send throws
Break ==
    \E ws \in members(clients) \ broken :
        /\ broken' = broken \cup {ws}
        /\ last' = event("break", ws)
        /\ UNCHANGED <<votes, clients, nextWs>>

Next == Vote \/ Reset \/ Connection \/ Close \/ Error \/ Break

Spec == Init /\ [][Next]_vars

-----------------------------------------------------------------------------
(* Submissions to polls of the other types: single choice, free text and   *)
(* rating scale, with no subscriber connected and no statement throwing    *)

\* values of POST /api/vote for the poll: a declared option or what the
\* vote page sends, and values no page sends
SubmittedValues(pollId) ==
    IF pollId = T("1") THEN {POLLS[pollId].options[1], T("__proto__")}
    ELSE IF pollId = T("2") THEN {T("hello"), T("bye")}
    ELSE {T("5")}

PollRequests ==
    UNION {[poll : {JsString(p)},
            value : {JsString(x) : x \in SubmittedValues(p)},
            voterId : {JsString(v) : v \in Voters}] : p \in {T("1"), T("2"), T("3")}}

\* POST /api/vote
Submit ==
    \E req \in PollRequests :
        LET out == voteHandler(votes, clients, broken, req, "none") IN
        /\ Len(out.votes) <= MaxBallots
        /\ votes' = out.votes
        /\ clients' = out.clients
        /\ last' = http("vote", req, out)
        /\ UNCHANGED <<broken, nextWs>>

NextPolls == Submit \/ Reset

SpecPolls == Init /\ [][NextPolls]_vars

-----------------------------------------------------------------------------
(* broadcast, one iteration of its loop at a time.  Node runs the loop to   *)
(* its end before it calls a connection, close or error listener; here the *)
(* listeners may also run between two iterations, so that the iteration    *)
(* over a Set that changes is covered whatever calls the listeners.        *)

\* an iterator that does not follow the deletion of an entry it has passed,
\* like an index into an array the entry was spliced from
afterDeleteKeep(pos, k) == pos

\* the number of live entries a Set iterator has passed, once entry k is
\* deleted: an entry deleted behind the iterator no longer counts
afterDelete(pos, k) == IF k <= pos THEN pos - 1 ELSE pos

\* the record of a call of broadcast: the entries the iterator has passed,
\* the members of the Set when the loop began, the sockets whose send
\* returned and those whose send threw, and the number of times a listener
\* changed the Set while the loop ran
loop(op, pos, before, sent, failed, changed) ==
    [op |-> op, pos |-> pos, before |-> before, sent |-> sent, failed |-> failed,
     changed |-> changed]

InitBroadcast ==
    /\ votes = <<>>
    /\ clients = <<>>
    /\ broken = {}
    /\ nextWs = 0
    /\ last = loop("idle", 0, {}, <<>>, <<>>, 0)

\* broadcast(data) is called: for (const ws of clients) starts
BroadcastBegin ==
    /\ last.op # "loop"
    /\ last' = loop("loop", 0, members(clients), <<>>, <<>>, 0)
    /\ UNCHANGED <<votes, clients, broken, nextWs>>

\* one iteration: try { ws.send(msg); } catch { /* ignore */ }
BroadcastSend ==
    /\ last.op = "loop"
    /\ last.pos < Len(clients)
    /\ LET ws == clients[last.pos + 1]
           r == trySend(broken, ws)
       IN /\ clients' = IF r = "caught" THEN onSendError(clients, ws) ELSE clients
          /\ last' = [last EXCEPT
                        !.op = IF r = "raised" THEN "raised" ELSE "loop",
                        !.pos = @ + 1,
                        !.sent = IF r = "sent" THEN Append(@, ws) ELSE @,
                        !.failed = IF r = "sent" THEN @ ELSE Append(@, ws)]
    /\ UNCHANGED <<votes, broken, nextWs>>

\* the iterator is done: broadcast returns
BroadcastEnd ==
    /\ last.op = "loop"
    /\ last.pos >= Len(clients)
    /\ last' = [last EXCEPT !.op = "returned"]
    /\ UNCHANGED <<votes, clients, broken, nextWs>>

\* wss.on('connection', ws => { clients.add(ws); ... })
ConnectionAnytime ==
    /\ nextWs < MaxSockets
    /\ nextWs' = nextWs + 1
    /\ clients' = Append(clients, nextWs + 1)
    /\ last' = IF last.op = "loop" THEN [last EXCEPT !.changed = @ + 1] ELSE last
    /\ UNCHANGED <<votes, broken>>

\* ws.on('close', () => clients.delete(ws)), ws.on('error', () => clients.delete(ws))
CloseAnytime ==
    \E k \in 1..Len(clients) :
        /\ clients' = remove(clients, clients[k])
        /\ broken' = broken \ {clients[k]}
        /\ last' = IF last.op = "loop"
                   THEN [last EXCEPT !.pos = afterDelete(@, k), !.changed = @ + 1]
                   ELSE last
        /\ UNCHANGED <<votes, nextWs>>

\* from now on ws.send throws for the connection
BreakAnytime ==
    \E ws \in members(clients) \ broken :
        /\ broken' = broken \cup {ws}
        /\ UNCHANGED <<votes, clients, nextWs, last>>

NextBroadcast ==
    \/ BroadcastBegin \/ BroadcastSend \/ BroadcastEnd
    \/ ConnectionAnytime \/ CloseAnytime \/ BreakAnytime

SpecBroadcast == InitBroadcast /\ [][NextBroadcast]_vars

-----------------------------------------------------------------------------
(* aggregateResults as a function: the branch a poll's type selects, applied *)
(* to the values getVotes returned                                          *)

\* a poll of type mc-writein, the type of the third branch of
\* aggregateResults; POLLS declares none
WriteinPoll ==
    [defined |-> TRUE, type |-> "mc-writein", options |-> << T("Red"), T("Blue") >>]

\* one poll for every branch that counts options
CountedPolls == {pollOf(T("1")), pollOf(T("3")), pollOf(T("4")), WriteinPoll}

\* values a row of the poll can hold: what the vote page sends, and what any
\* other client of POST /api/vote can send (the handler stores every value
\* that is not falsy)
StoredValues(poll) ==
    IF poll.type = "mc"
    THEN {poll.options[1], poll.options[4], T("Maybe"), T("7"),
          T("constructor"), T("__proto__")}
    ELSE IF poll.type = "likert"
    THEN {T("1"), T("2"), T("4"), T("5"), poll.options[3], T("n/a")}
    ELSE IF poll.type = "multi"
    THEN {JSONstringify(<<T("ChatGPT"), T("Claude")>>),
          JSONstringify(<<T("Claude")>>),
          JSONstringify(<<T("Claude"), T("Claude")>>),
          JSONstringify(<<T("Zed")>>),
          JSONstringify(<<>>),
          <<"[", "\"", "Claude">>,
          T("Claude")}
    ELSE {T("Red"), T("Blue"), T("Green"), T("red"), T("Other"), T("7")}

\* the record of a call of aggregateResults: the poll, the rows read, and
\* the value returned once the call has returned
call(op, poll, rows, out) == [op |-> op, poll |-> poll, rows |-> rows, out |-> out]

InitAggregate ==
    /\ votes = <<>>
    /\ clients = <<>>
    /\ broken = {}
    /\ nextWs = 0
    /\ \E poll \in CountedPolls :
          \E n \in 0..MaxVotes :
              \E rows \in [1..n -> StoredValues(poll)] :
                  last = call("call", poll, rows, [total |-> 0, results |-> <<>>])

\* the call returns
Aggregate ==
    /\ last.op = "call"
    /\ last' = call("return", last.poll, last.rows, aggregate(last.poll, last.rows))
    /\ UNCHANGED <<votes, clients, broken, nextWs>>

NextAggregate == Aggregate

SpecAggregate == InitAggregate /\ [][NextAggregate]_vars

-----------------------------------------------------------------------------
(* Vocabulary of the properties *)

\* the poll id is a key of the poll catalog
InCatalog(pollId) == \E i \in 1..Len(PollKeys) : PollKeys[i] = pollId

\* a request field that is missing or empty: undefined, "" or []
Empty(x) ==
    \/ x.kind = "undefined"
    \/ x.kind = "string" /\ x.s = <<>>
    \/ x.kind = "array" /\ x.items = <<>>

UniqueRows(table) ==
    \A i, j \in 1..Len(table) :
        (table[i].poll_id = table[j].poll_id /\ table[i].voter_id = table[j].voter_id)
            => i = j

\* the step l is a vote submission whose upsert was executed
Stored(l) == l.op = "vote" /\ l.changes = 1

\* the sockets the log (sent or failed) names for the n-th event
socketsOf(log, n) == {log[i].ws : i \in {k \in 1..Len(log) : log[k].event = n}}

\* position of a statement in the list of executed statements, 0 if absent
stepOf(l, name) ==
    IF \E i \in 1..Len(l.steps) : l.steps[i] = name
    THEN CHOOSE i \in 1..Len(l.steps) : l.steps[i] = name
    ELSE 0

\* the entries of a result list that carry the label
entriesOf(results, label) == {i \in 1..Len(results) : results[i].label = label}

\* the result list of options nobody voted for
allZero(options) == [k \in 1..Len(options) |-> [label |-> options[k], count |-> 0]]

\* the labels a stored value picks: the items of the list it is the JSON
\* text of in a multi-select poll, itself in the other polls
picked(poll, value) ==
    IF poll.type = "multi"
    THEN IF JSONparse(value).ok THEN members(JSONparse(value).items) ELSE {}
    ELSE {value}

\* every declared option has one entry, the entries stand in declared
\* order, and an option no row picks has count 0
optionsListed(poll, rows, results) ==
    /\ \A k \in 1..Len(poll.options) :
          /\ Cardinality(entriesOf(results, poll.options[k])) = 1
          /\ (\A r \in 1..Len(rows) : poll.options[k] \notin picked(poll, rows[r]))
                => \A i \in entriesOf(results, poll.options[k]) : results[i].count = 0
    /\ \A j, k \in 1..Len(poll.options) :
          j < k => \A a \in entriesOf(results, poll.options[j]) :
                      \A b \in entriesOf(results, poll.options[k]) : a < b

RECURSIVE sumCounts(_)
\* the sum of the counts of a result list whose entries all hold numbers
sumCounts(results) ==
    IF results = <<>> THEN 0 ELSE Head(results).count + sumCounts(Tail(results))

\* every entry of the result list holds a number
allNumbers(results) == \A i \in 1..Len(results) : "count" \in DOMAIN results[i]

\* the rows that hold the value
rowsWith(rows, value) == {r \in 1..Len(rows) : rows[r] = value}

\* the stored value begins with a decimal numeral
beginsWithNumeral(value) == Len(value) > 0 /\ value[1] \in Digit

RECURSIVE sumOf(_, _)
\* the sum of f over the finite set S
sumOf(f, S) ==
    IF S = {} THEN 0
    ELSE LET x == CHOOSE x \in S : TRUE IN f[x] + sumOf(f, S \ {x})

-----------------------------------------------------------------------------
(* Properties *)

\* C1: the table never holds two rows for one (poll, voter); after a
\* submission whose upsert ran, the pair's row holds the submitted value, and
\* if the pair had a row already the poll's total is what it was; rows change
\* by such a submission or by a reset and by nothing else.
C1_OneRowLatestValue ==
    [][ /\ UniqueRows(votes')
        /\ Stored(last') =>
             LET p == last'.req.poll.s
                 v == last'.req.voterId.s
             IN /\ \E i \in rowIndex(votes', p, v) :
                      votes'[i].value = storedValue(last'.req.value)
                /\ rowIndex(votes, p, v) # {} =>
                      aggregateResults(votes', p).total = aggregateResults(votes, p).total
        /\ votes' # votes =>
             \/ Stored(last')
             \/ last'.op = "reset" /\ votes' = <<>>
      ]_vars

\* a voter's second submission has been stored: the row it wrote is not the
\* newest row of the table, so it was overwritten where it stood
C1_Resubmitted ==
    /\ Stored(last) /\ last.status = 200
    /\ \E i \in rowIndex(votes, last.req.poll.s, last.req.voterId.s) :
          /\ i < Len(votes)
          /\ votes[i].value = storedValue(last.req.value)

\* C2: a submission whose poll id is no key of the catalog is answered 400,
\* leaves the table as it was and publishes nothing (stated for the runs in
\* which no statement throws).
C2_UnknownPollRejected ==
    [][ (last'.op = "vote" /\ ~InCatalog(last'.req.poll.s)
           /\ stepOf(last', "throw") = 0) =>
            /\ last'.status = 400
            /\ votes' = votes
            /\ last'.emitted = <<>>
      ]_vars

\* C3: a submission whose voterId or value is missing or empty (the empty
\* array included) is answered 400, stores nothing and publishes nothing
\* (stated for the runs in which no statement throws).
C3_EmptyFieldRejected ==
    [][ (last'.op = "vote" /\ (Empty(last'.req.voterId) \/ Empty(last'.req.value))
           /\ stepOf(last', "throw") = 0) =>
            /\ last'.status = 400
            /\ votes' = votes
            /\ last'.emitted = <<>>
      ]_vars

\* C4: a submission answered with a 5xx status published no event and left
\* the table as it was (stated for the polls of the catalog and the values
\* that are not empty).
C4_FailedLeavesNoTrace ==
    [][ (last'.op = "vote" /\ last'.status >= 500 /\ InCatalog(last'.req.poll.s)
           /\ ~Empty(last'.req.value)) =>
            /\ last'.emitted = <<>>
            /\ votes' = votes
      ]_vars

\* C5: when a submission is acknowledged, its vote is in the table, exactly
\* one vote event for its poll was published, the event carries the aggregate
\* of the table with that vote in it, a send of it to every registered
\* subscriber was made, and the statements ended in the order upsert,
\* aggregate, broadcast, respond.
C5_AckAfterPersistAggregatePublish ==
    (last.op = "vote" /\ last.status = 200) =>
        LET p == last.req.poll.s
            v == last.req.voterId.s
        IN /\ \E i \in rowIndex(votes, p, v) :
                 votes[i].value = storedValue(last.req.value)
           /\ last.emitted =
                 <<[type |-> "vote", poll |-> p, results |-> aggregateResults(votes, p)]>>
           /\ \A ws \in members(clients) :
                 ws \in socketsOf(last.sent, 1) \cup socketsOf(last.failed, 1)
           /\ 0 < stepOf(last, "upsert")
           /\ stepOf(last, "upsert") < stepOf(last, "aggregate")
           /\ stepOf(last, "aggregate") < stepOf(last, "broadcast")
           /\ stepOf(last, "broadcast") < stepOf(last, "respond")
           /\ stepOf(last, "respond") = Len(last.steps)

\* an acknowledged submission for a poll that has another voter's row too,
\* with two subscribers registered
C5_AckWithSubscribers ==
    /\ last.op = "vote" /\ last.status = 200
    /\ Len(getVotes(votes, last.req.poll.s)) = 2
    /\ Len(clients) = 2
    /\ Len(last.sent) + Len(last.failed) = 2

\* C6: whenever a step changes the rows of a poll of the catalog, the last
\* event that step published for the poll carries the aggregate of the
\* poll's rows after it.
C6_StoreChangeBroadcast ==
    [][ \A p \in DOMAIN POLLS :
            getVotes(votes', p) # getVotes(votes, p) =>
                \E i \in 1..Len(last'.emitted) :
                    /\ last'.emitted[i].poll = p
                    /\ last'.emitted[i].results = aggregateResults(votes', p)
                    /\ \A j \in (i + 1)..Len(last'.emitted) : last'.emitted[j].poll # p
      ]_vars

\* C7: after a reset that completed, the table is empty, the aggregate of
\* every poll of the catalog has total 0 and lists exactly the declared
\* options, in order, each at 0, and the reset published one event for each
\* poll of the catalog, carrying that aggregate, and no other event.
C7_ResetZeroesEveryPoll ==
    (last.op = "reset" /\ last.status = 200) =>
        /\ votes = <<>>
        /\ Len(last.emitted) = Cardinality(DOMAIN POLLS)
        /\ \A p \in DOMAIN POLLS :
              LET a == aggregateResults(votes, p) IN
              /\ a.total = 0
              /\ Len(a.results) = Len(POLLS[p].options)
              /\ \A k \in 1..Len(a.results) :
                    a.results[k] = [label |-> POLLS[p].options[k], count |-> 0]
              /\ Cardinality({i \in 1..Len(last.emitted) : last.emitted[i].poll = p}) = 1
              /\ \A i \in 1..Len(last.emitted) :
                    last.emitted[i].poll = p => last.emitted[i].results = a

\* a completed reset that deleted rows
C7_ResetOfVotes ==
    /\ last.op = "reset" /\ last.status = 200
    /\ last.changes > 0

\* C8, as stated: the events of a reset carry a reset tag.
C8_ResetTagged ==
    last.op = "reset" =>
        \A i \in 1..Len(last.emitted) : last.emitted[i].type = "reset"

\* C8, amended: the events of a reset carry the tag of the events of a vote
\* submission, "vote".
C8_ResetUsesVoteTag ==
    last.op \in {"vote", "reset"} =>
        \A i \in 1..Len(last.emitted) : last.emitted[i].type = "vote"

\* a completed reset with its events
C8_ResetPublished ==
    /\ last.op = "reset" /\ last.status = 200
    /\ Len(last.emitted) = Len(PollKeys)

\* C9: when a send threw during a broadcast, every event of the step was
\* still sent to every registered subscriber whose send does not throw, a
\* send was attempted for every registered subscriber, and a vote submission
\* was acknowledged.
C9_FailureIsolated ==
    (last.op \in {"vote", "reset"} /\ last.failed # <<>>) =>
        /\ last.op = "vote" => last.status = 200
        /\ \A n \in 1..Len(last.emitted) :
              \A ws \in members(clients) :
                  /\ ws \in socketsOf(last.sent, n) \cup socketsOf(last.failed, n)
                  /\ ws \notin broken => ws \in socketsOf(last.sent, n)

\* an acknowledged submission whose broadcast met a throwing subscriber
\* first and a healthy one after it
C9_OneFailedOneServed ==
    /\ last.op = "vote" /\ last.status = 200
    /\ Len(clients) = 2
    /\ clients[1] \in socketsOf(last.failed, 1)
    /\ clients[2] \in socketsOf(last.sent, 1)

\* C10, as stated: a subscriber whose send threw is no longer registered.
C10_FailedDropped ==
    \A i \in 1..Len(last.failed) : last.failed[i].ws \notin members(clients)

\* C10, amended: a subscriber whose send threw is still registered after
\* the broadcast, and every broadcast attempts a send to every registered
\* subscriber, those whose send throws included.
C10_FailedStaysRegistered ==
    last.op \in {"vote", "reset"} =>
        /\ \A i \in 1..Len(last.failed) : last.failed[i].ws \in members(clients)
        /\ \A n \in 1..Len(last.emitted) :
              \A ws \in members(clients) \cap broken : ws \in socketsOf(last.failed, n)

\* a reset whose first broadcast failed for a subscriber and whose second
\* broadcast tried that subscriber again
C10_FailedTriedAgain ==
    /\ last.op = "reset"
    /\ \E ws \in members(clients) :
          ws \in socketsOf(last.failed, 1) /\ ws \in socketsOf(last.failed, 2)

C12_NewestFirst ==
    [][ (last'.op = "vote" /\ last'.status = 200
           /\ pollOf(last'.req.poll.s).type = "open"
           /\ rowIndex(votes, last'.req.poll.s, last'.req.voterId.s) # {}) =>
            Head(aggregateResults(votes', last'.req.poll.s).results)
                = storedValue(last'.req.value)
      ]_vars

\* C13, as stated: the result list holds every declared option once, in
\* declared order, at 0 when no row picks it; with no row the list is
\* exactly the declared options at 0 and the total is 0.
C13_DeclaredOptionsOnly ==
    last.op = "return" =>
        /\ optionsListed(last.poll, last.rows, last.out.results)
        /\ last.rows = <<>> =>
              /\ last.out.total = 0
              /\ last.out.results = allZero(last.poll.options)

\* C13, amended: as stated, but with no row the list of a write-in poll is
\* the declared options at 0 followed by the bucket Other at 0.
C13_DeclaredOptionsListed ==
    last.op = "return" =>
        /\ optionsListed(last.poll, last.rows, last.out.results)
        /\ last.rows = <<>> =>
              /\ last.out.total = 0
              /\ last.out.results =
                    allZero(last.poll.options)
                      \o (IF last.poll.type = "mc-writein"
                          THEN <<[label |-> T("Other"), count |-> 0]>> ELSE <<>>)

\* an aggregate of a single-choice poll whose list begins with the bucket of
\* a value that is no option, ahead of a declared option somebody picked
C13_UndeclaredBucketFirst ==
    /\ last.op = "return" /\ last.poll.type = "mc"
    /\ Len(last.out.results) > Len(last.poll.options)
    /\ last.out.results[1].label = T("7")
    /\ \E i \in entriesOf(last.out.results, last.poll.options[4]) :
          last.out.results[i].count = 2

\* C14: in the aggregate of a multi-select poll every label listed has as
\* its count the number of rows whose selection, taken as a set, contains
\* the label, every label some row selects is listed, and the total is the
\* number of rows (one row per voter); a row whose value is not the JSON
\* text of a list selects nothing.
C14_CountsVotersPerLabel ==
    (last.op = "return" /\ last.poll.type = "multi") =>
        LET voters(label) ==
                {r \in 1..Len(last.rows) : label \in picked(last.poll, last.rows[r])}
        IN /\ last.out.total = Len(last.rows)
           /\ \A i \in 1..Len(last.out.results) :
                 last.out.results[i].count
                     = Cardinality(voters(last.out.results[i].label))
           /\ \A r \in 1..Len(last.rows) :
                 \A label \in picked(last.poll, last.rows[r]) :
                     entriesOf(last.out.results, label) # {}

\* C15: in the aggregate of a write-in poll the count of a declared option
\* is the number of rows that hold exactly that option, the count of Other
\* is the number of rows that hold no declared option, the write-in list
\* holds the values of exactly those rows (the last of them first), so its
\* length is the count of Other, and the counts sum to the total.
C15_WriteinClassified ==
    (last.op = "return" /\ last.poll.type = "mc-writein") =>
        LET opts == last.poll.options
            res == last.out.results
            undeclared == SelectSeq(last.rows,
                              LAMBDA v : \A k \in 1..Len(opts) : opts[k] # v)
        IN /\ Len(res) = Len(opts) + 1
           /\ \A k \in 1..Len(opts) :
                 res[k] = [label |-> opts[k],
                           count |-> Cardinality(rowsWith(last.rows, opts[k]))]
           /\ res[Len(opts) + 1] = [label |-> T("Other"), count |-> Len(undeclared)]
           /\ last.out.writeIns = reverse(undeclared)
           /\ Len(last.out.writeIns) = res[Len(opts) + 1].count
           /\ sumCounts(res) = last.out.total
           /\ last.out.total = Len(last.rows)

\* an aggregate over a declared option, a value that is no option and the
\* value "Other" itself
C15_OptionAndWriteins ==
    /\ last.op = "return" /\ last.poll.type = "mc-writein"
    /\ last.rows = << T("Red"), T("Green"), T("Other") >>
    /\ last.out.writeIns = << T("Other"), T("Green") >>

\* C16: the average of a rating-scale aggregate is the mean of the integers
\* at the head of the stored values that begin with a numeral, over the
\* number of those values, rounded to tenths (a half rounds up) and written
\* with one decimal; a value that begins with no numeral enters neither the
\* sum nor the number; the total is the number of rows; without any value
\* that begins with a numeral the average is "0.0".
C16_MeanOfParseable ==
    (last.op = "return" /\ last.poll.type = "likert") =>
        LET numeric == {r \in 1..Len(last.rows) : beginsWithNumeral(last.rows[r])}
            int == [r \in numeric |-> parseInt(last.rows[r]).num]
            sum == sumOf(int, numeric)
            n == Cardinality(numeric)
        IN /\ last.out.total = Len(last.rows)
           /\ n = 0 => last.out.average = <<"0", ".", "0">>
           /\ n > 0 =>
                 \E t \in 0..(10 * sum) :
                     /\ (2 * t - 1) * n <= 20 * sum
                     /\ 20 * sum < (2 * t + 1) * n
                     /\ last.out.average
                          = numeral(t \div 10) \o <<".">> \o numeral(t % 10)

\* an aggregate over two numerals and a value that is no numeral: the mean
\* of 1 and 4 over two values
C16_NonNumericExcluded ==
    /\ last.op = "return" /\ last.poll.type = "likert"
    /\ last.rows = << T("1"), T("n/a"), T("4") >>
    /\ last.out.average = <<"2", ".", "5">>
    /\ last.out.total = Len(last.rows)

\* C17: every submission ends with one response, sent after every other
\* statement of its run: 200 after upsert, aggregate and broadcast all
\* returned (Acknowledged), 400 after validation alone (Rejected), 500 after
\* a statement threw (Failed); a send that throws inside the broadcast does
\* not change this.
C17_OneResponse ==
    last.op = "vote" =>
        /\ Cardinality({i \in 1..Len(last.steps) : last.steps[i] = "respond"}) = 1
        /\ stepOf(last, "respond") = Len(last.steps)
        /\ last.status \in {200, 400, 500}
        /\ last.status = 200 <=>
              last.steps = <<"validate", "upsert", "aggregate", "broadcast", "respond">>
        /\ last.status = 400 <=> last.steps = <<"validate", "respond">>
        /\ last.status = 500 <=> stepOf(last, "throw") > 0

\* a submission answered 500 because the read of the aggregate threw after
\* the upsert
C17_FailedAfterUpsert ==
    /\ last.op = "vote" /\ last.status = 500
    /\ stepOf(last, "upsert") > 0
    /\ clients # <<>>

\* C18: no call of broadcast ends with an error, whatever listeners change
\* the Set while its loop runs, and when it returns, a send was made for
\* every subscriber that was registered when the loop began and still is.
C18_NoRaiseNoSkip ==
    /\ last.op # "raised"
    /\ last.op = "returned" =>
          \A ws \in last.before \cap members(clients) :
              \E i \in 1..Len(last.sent \o last.failed) :
                  (last.sent \o last.failed)[i] = ws

\* a broadcast has returned during which the Set changed, with a subscriber
\* registered from before its start to after its end
C18_ChangedDuringLoop ==
    /\ last.op = "returned"
    /\ last.changed > 0
    /\ last.before \cap members(clients) # {}

\* C19: an acknowledged submission for poll p by voter v leaves every row
\* that is not the row of (p, v) as and where it was, adds at most the row
\* of (p, v), leaves the rows and the aggregate of every other poll as they
\* were, and publishes one event, for poll p.
C19_OnlyOwnRow ==
    [][ (last'.op = "vote" /\ last'.status = 200) =>
            LET p == last'.req.poll.s
                v == last'.req.voterId.s
            IN /\ Len(votes') \in {Len(votes), Len(votes) + 1}
               /\ \A i \in 1..Len(votes) :
                     (votes[i].poll_id # p \/ votes[i].voter_id # v) =>
                         votes'[i] = votes[i]
               /\ \A i \in 1..Len(votes') :
                     i > Len(votes) =>
                         votes'[i].poll_id = p /\ votes'[i].voter_id = v
               /\ \A q \in (DOMAIN POLLS) \ {p} :
                     /\ getVotes(votes', q) = getVotes(votes, q)
                     /\ aggregateResults(votes', q) = aggregateResults(votes, q)
               /\ Len(last'.emitted) = 1
               /\ last'.emitted[1].poll = p
      ]_vars

\* a voter's resubmission has been acknowledged while the table holds the
\* same voter's row of another poll and another voter's row of this poll
C19_ResubmittedAmongOthers ==
    /\ last.op = "vote" /\ last.status = 200
    /\ \E i \in rowIndex(votes, last.req.poll.s, last.req.voterId.s) : i < Len(votes)
    /\ \E i \in 1..Len(votes) :
          votes[i].poll_id # last.req.poll.s /\ votes[i].voter_id = last.req.voterId.s
    /\ \E i \in 1..Len(votes) :
          votes[i].poll_id = last.req.poll.s /\ votes[i].voter_id # last.req.voterId.s

\* C20: for every single-choice and rating-scale poll of the catalog, the
\* entries of the aggregate's list hold numbers that sum to the total, the
\* total is the number of voters with a row for the poll, and every stored
\* value has an entry of its own in the list.
C20_CountsSumToTotal ==
    \A p \in DOMAIN POLLS :
        POLLS[p].type \in {"mc", "likert"} =>
            LET a == aggregateResults(votes, p) IN
            /\ allNumbers(a.results)
            /\ sumCounts(a.results) = a.total
            /\ a.total = Cardinality({v \in Voters : rowIndex(votes, p, v) # {}})
            /\ \A i \in 1..Len(votes) :
                  votes[i].poll_id = p => entriesOf(a.results, votes[i].value) # {}

=============================================================================
